---- MODULE Spec2Model ----
(***************************************************************************)
(* Terraform module tools: the batch initializers that turn module         *)
(* configurations into registered tool descriptors.                        *)
(*                                                                         *)
(*   - initialize_tools / _initialize_module_tools /                       *)
(*     create_terraform_module_tool / TerraformModuleTool.initialize_tool  *)
(*     (tools/__init__.py, tools/terraform_module_tool.py)                 *)
(*   - initialize_terraform_tools / load_terraform_tools /                 *)
(*     register_terraform_tools (package __init__.py,                      *)
(*     tools/dynamic_tool_loader.py)                                       *)
(*                                                                         *)
(* Python strings are TLA+ strings (Len, SubSeq and \o act on them);       *)
(* Python's None is the value None below.                                  *)
(***************************************************************************)
EXTENDS Integers, Sequences, FiniteSets, TLC

\* The longest list of module configurations a run is given.
MaxModules == 2

None == "<None>"

-----------------------------------------------------------------------------
(* Python string methods, as the code uses them.                           *)

StartsWith(s, p) == Len(s) >= Len(p) /\ SubSeq(s, 1, Len(p)) = p

\* The index of the first occurrence of sub in s, 0 when there is none.
RECURSIVE FindFrom(_, _, _)
FindFrom(s, sub, i) ==
    IF i + Len(sub) - 1 > Len(s) THEN 0
    ELSE IF SubSeq(s, i, i + Len(sub) - 1) = sub THEN i
    ELSE FindFrom(s, sub, i + 1)

Find(s, sub) == FindFrom(s, sub, 1)

\* sub in s
Contains(s, sub) == Find(s, sub) # 0

\* s.split(sep): the sequence of pieces, always at least one
RECURSIVE Split(_, _)
Split(s, sep) ==
    LET k == Find(s, sep)
    IN IF k = 0 THEN <<s>>
       ELSE <<SubSeq(s, 1, k - 1)>> \o Split(SubSeq(s, k + Len(sep), Len(s)), sep)

\* s.count(sep)
Count(s, sep) == Len(Split(s, sep)) - 1

\* sep.join(parts)
RECURSIVE Join(_, _)
Join(parts, sep) ==
    IF Len(parts) = 0 THEN ""
    ELSE IF Len(parts) = 1 THEN parts[1]
    ELSE parts[1] \o sep \o Join(Tail(parts), sep)

\* s.replace(old, new)
Replace(s, old, new) == Join(Split(s, old), new)

\* s.rstrip(chars): drops every trailing character that is one of chars
RECURSIVE RStrip(_, _)
RStrip(s, chars) ==
    IF Len(s) > 0 /\ Contains(chars, SubSeq(s, Len(s), Len(s)))
    THEN RStrip(SubSeq(s, 1, Len(s) - 1), chars)
    ELSE s

UpperChars == "ABCDEFGHIJKLMNOPQRSTUVWXYZ"
LowerChars == "abcdefghijklmnopqrstuvwxyz"
DigitChars == "0123456789"

LowerChar(c) ==
    LET k == Find(UpperChars, c)
    IN IF k = 0 THEN c ELSE SubSeq(LowerChars, k, k)

\* s.lower()
RECURSIVE Lower(_)
Lower(s) ==
    IF Len(s) = 0 THEN ""
    ELSE LowerChar(SubSeq(s, 1, 1)) \o Lower(SubSeq(s, 2, Len(s)))

\* \w of the regular expression: a letter, a digit or the underscore
IsWordChar(c) ==
    Contains(UpperChars, c) \/ Contains(LowerChars, c) \/ Contains(DigitChars, c) \/ c = "_"

\* re.sub(r'[^\w_]', '', s)
RECURSIVE StripNonWord(_)
StripNonWord(s) ==
    IF Len(s) = 0 THEN ""
    ELSE (IF IsWordChar(SubSeq(s, 1, 1)) THEN SubSeq(s, 1, 1) ELSE "")
         \o StripNonWord(SubSeq(s, 2, Len(s)))

\* Python truthiness of an optional string: neither None nor ''
Truthy(v) == v # None /\ v # ""

Last(seq) == seq[Len(seq)]

-----------------------------------------------------------------------------
(* Name derivation.                                                        *)

\* The github/gitlab branch of _get_clean_module_name
GitHostName(url) ==
    LET parts == Split(RStrip(RStrip(url, "/"), ".git"), "/")
        repo_name == Last(parts)
        name_parts == Split(repo_name, "-")
    IN IF StartsWith(repo_name, "terraform-") /\ Len(name_parts) >= 3
       THEN Lower(name_parts[2] \o "_" \o Join(SubSeq(name_parts, 3, Len(name_parts)), "_"))
       ELSE Lower(Replace(repo_name, "-", "_"))

\* The fallback of _get_clean_module_name
FallbackName(url) == Lower(StripNonWord(Replace(Last(Split(url, "/")), "-", "_")))

\* A name deriver that looks at the last segment of the url only
LastSegmentName(module_config) == FallbackName(module_config.url)

\* _get_clean_module_name(module_config); module_config['url'] is present
get_clean_module_name(module_config) ==
    IF Truthy(module_config.name)
    THEN Replace(Lower(module_config.name), "-", "_")
    ELSE IF Truthy(module_config.provider) /\ Truthy(module_config.resource_type)
    THEN Lower(module_config.provider \o "_" \o module_config.resource_type)
    ELSE LET url0 == module_config.url
             url == IF Contains(url0, "/tree/") THEN Split(url0, "/tree/")[1] ELSE url0
         IN IF StartsWith(url, "http://") \/ StartsWith(url, "https://") \/ StartsWith(url, "git@")
            THEN IF Contains(url, "github.com") \/ Contains(url, "gitlab.com")
                 THEN GitHostName(url)
                 ELSE FallbackName(url)
            ELSE IF Count(url, "/") = 2
            THEN LET p == Split(url, "/") IN Lower(p[3] \o "_" \o p[2])
            ELSE FallbackName(url)

-----------------------------------------------------------------------------
(* The discovery port (TerraformModuleParser.get_variables) and the inputs. *)

\* A type mapping that looks for the type names anywhere in the type
TypeByContent(tf_type) ==
    IF Contains(Lower(tf_type), "bool") THEN "bool"
    ELSE IF Contains(Lower(tf_type), "number") THEN "int"
    ELSE "str"

\* base_type of map_terraform_type_to_arg_type
map_terraform_type_to_arg_type(tf_type) ==
    LET base_type == Lower(Split(tf_type, "(")[1])
    IN IF base_type = "bool" THEN "bool"
       ELSE IF base_type = "number" THEN "int"
       ELSE "str"

VarRegion == [name |-> "region", type |-> "string", required |-> TRUE]
VarTags == [name |-> "tags", type |-> "map(string)", required |-> FALSE]
VarCount == [name |-> "az_count", type |-> "number", required |-> FALSE]
VarEnabled == [name |-> "enabled", type |-> "bool", required |-> FALSE]

NoFields ==
    [url |-> None, name |-> None, provider |-> None, resource_type |-> None,
     ref |-> None, path |-> None, description |-> None]

\* Module configurations handed to _initialize_module_tools, each with the
\* variables its source declares (what the port finds when discovery works).
CfgGithub ==
    [config |-> [NoFields EXCEPT
                   !.url = "https://github.com/terraform-aws-modules/terraform-aws-vpc",
                   !.ref = "v5.0.0"],
     vars |-> <<VarRegion, VarTags>>]
CfgRegistry ==
    [config |-> [NoFields EXCEPT !.url = "terraform-aws-modules/vpc/aws"],
     vars |-> <<VarCount>>]
CfgNamed ==
    [config |-> [NoFields EXCEPT !.url = "https://gitlab.com/infra/modules.git",
                                 !.name = "Edge-Net", !.path = "modules/net"],
     vars |-> <<VarEnabled, VarRegion>>]
CfgNoUrl ==
    [config |-> [NoFields EXCEPT !.name = "orphan"],
     vars |-> <<VarRegion>>]

ModuleConfigs == {CfgGithub, CfgRegistry, CfgNamed, CfgNoUrl}

\* Configuration files read by load_terraform_tools: name, description and
\* source.location (url); a file without a name is malformed.
FileVpcGit ==
    [config |-> [NoFields EXCEPT
                   !.url = "https://github.com/terraform-aws-modules/terraform-aws-vpc",
                   !.name = "vpc", !.description = "VPC"],
     vars |-> <<VarRegion, VarTags>>]
FileVpcFork ==
    [config |-> [NoFields EXCEPT !.url = "https://github.com/acme/terraform-aws-vpc",
                                 !.name = "vpc", !.description = "VPC fork"],
     vars |-> <<VarCount>>]
FileEks ==
    [config |-> [NoFields EXCEPT !.url = "https://github.com/acme/terraform-aws-eks",
                                 !.name = "eks", !.description = "EKS"],
     vars |-> <<VarEnabled, VarRegion>>]
FileNoName ==
    [config |-> [NoFields EXCEPT !.url = "https://github.com/acme/terraform-aws-rds"],
     vars |-> <<VarRegion>>]

ConfigFiles == {FileVpcGit, FileVpcFork, FileEks, FileNoName}

\* The key of the i-th entry of the modules mapping (the i-th file's stem).
ModuleKey(i) == "m" \o SubSeq(DigitChars, i + 1, i + 1)

\* What one call of the port may answer.
Responses == {"ok", "empty", "errors", "errors_vars", "raise"}

\* parser.get_variables() answering `kind` for a module: (variables, warnings,
\* errors), or an exception.
get_variables(entry, kind) ==
    [raised |-> kind = "raise",
     variables |-> IF kind \in {"ok", "errors_vars"} THEN entry.vars ELSE <<>>,
     warnings |-> <<>>,
     errors |-> IF kind \in {"errors", "errors_vars"} THEN <<"discovery error">> ELSE <<>>]

\* All sequences over S of length at most n.
RECURSIVE SeqsUpTo(_, _)
SeqsUpTo(S, n) ==
    IF n = 0 THEN {<<>>}
    ELSE LET shorter == SeqsUpTo(S, n - 1)
         IN shorter \cup {Append(q, e) : q \in {p \in shorter : Len(p) = n - 1}, e \in S}

\* _get_clean_module_name and map_terraform_type_to_arg_type on the inputs of
\* the model, tabulated.
CleanModuleName ==
    [c \in {e.config : e \in ModuleConfigs} |->
        IF c.url = None /\ ~Truthy(c.name) THEN None ELSE get_clean_module_name(c)]

ArgTypeOf ==
    [t \in {v.type : v \in {VarRegion, VarTags, VarCount, VarEnabled}} |->
        map_terraform_type_to_arg_type(t)]

-----------------------------------------------------------------------------
(* State.                                                                  *)

VARIABLES
    pipeline,        \* "init": initialize_tools; "loader": initialize_terraform_tools
    config,          \* the run configuration of initialize_tools
    modules,         \* the module configurations (config files), in input order
    pc,              \* the position of the run
    cursor,          \* the module the loop is at (1-based)
    step,            \* the action the inner loop is at (1-based)
    tools,           \* _initialize_module_tools: the local list `tools`
    errors,          \* _initialize_module_tools: the local list `errors`
    registry,        \* the tool sink: the register("terraform", tool) calls that returned
    printed,         \* load_terraform_tools: the failure lines it printed
    result,          \* initialize_tools: the list `tools` it returns
    outcome,         \* "running", "returned" or the error the run raised
    message,         \* the message of the raised error
    port             \* per module: the calls made to the discovery port

vars == <<pipeline, config, modules, pc, cursor, step, tools, errors,
          registry, printed, result, outcome, message, port>>

\* for action in ['plan', 'apply']
ModuleActions == <<"plan", "apply">>

SupportedProviders == {"aws", "gcp", "azure"}

ProviderLists == {<<>>, <<"aws">>, <<"aws", "not-a-provider">>, <<"not-a-provider">>}

\* The shapes of a run configuration: the two keys enable_reverse_terraform
\* and reverse_terraform_providers under the key 'terraform' ("nested"), or at
\* top level with no key 'terraform' ("flat")
ConfigShapes == {"nested", "flat"}

\* config.get('terraform', {}) of initialize_tools: a flat configuration has
\* no key 'terraform', and the empty mapping has neither of the two keys
terraform_config(cfg) ==
    IF cfg.shape = "nested" THEN cfg
    ELSE [cfg EXCEPT !.enable_reverse_terraform = FALSE,
                     !.reverse_terraform_providers = <<>>]

\* The answers of the port and of the sink that one pass of the module loop may
\* meet: the port's answer to create_terraform_module_tool, its answer to
\* initialize_tool, whether scripts/*.py holds the scripts, whether register
\* returns (FALSE: it raises). An answer the pass never asks for is fixed.
Environments ==
    {e \in [kind1 : Responses, kind2 : Responses, scripts : BOOLEAN, registered : BOOLEAN] :
        /\ e.kind1 \notin {"ok", "empty"} => e.kind2 = "ok"
        /\ (e.kind1 \notin {"ok", "empty"} \/ e.kind2 # "ok") => e.scripts
        /\ (e.kind1 \notin {"ok", "empty"} \/ e.kind2 # "ok" \/ ~e.scripts) => e.registered}

\* One more call of the port for a module, answering `kind`: the number of
\* calls, whether every call so far returned errors, and whether every call so
\* far returned no variables and no errors.
NoteCall(p, kind) ==
    [calls |-> p.calls + 1,
     all_errors |-> p.all_errors /\ kind \in {"errors", "errors_vars"},
     all_empty |-> p.all_empty /\ kind = "empty"]

RECURSIVE NoteCalls(_, _)
NoteCalls(p, kinds) ==
    IF Len(kinds) = 0 THEN p ELSE NoteCalls(NoteCall(p, Head(kinds)), Tail(kinds))

Init ==
    /\ pipeline \in {"init", "loader"}
    /\ config \in [present : BOOLEAN, shape : ConfigShapes,
                   enable_reverse_terraform : BOOLEAN,
                   reverse_terraform_providers : ProviderLists]
    /\ modules \in SeqsUpTo(IF pipeline = "init" THEN ModuleConfigs ELSE ConfigFiles,
                            MaxModules)
    \* an empty configuration has no modules and no providers; the loader does
    \* not read the run configuration
    /\ ~config.present =>
          /\ modules = <<>>
          /\ ~config.enable_reverse_terraform
          /\ config.shape = "nested"
    \* a flat configuration carries the two provider keys and no modules
    /\ config.shape = "flat" => modules = <<>>
    /\ ~config.enable_reverse_terraform => config.reverse_terraform_providers = <<>>
    /\ pipeline = "loader" =>
          config = [present |-> TRUE, shape |-> "nested",
                    enable_reverse_terraform |-> FALSE,
                    reverse_terraform_providers |-> <<>>]
    /\ pc = "start"
    /\ cursor = 1
    /\ step = 1
    /\ tools = <<>>
    /\ errors = <<>>
    /\ registry = <<>>
    /\ printed = <<>>
    /\ result = <<>>
    /\ outcome = "running"
    /\ message = None
    /\ port = [k \in 1..Len(modules) |-> [calls |-> 0, all_errors |-> TRUE, all_empty |-> TRUE]]

-----------------------------------------------------------------------------
(* initialize_tools and _initialize_module_tools.                          *)

\* The Arg initialize_tool makes of one discovered variable
ModuleArg(var_config) ==
    [name |-> var_config.name,
     type |-> ArgTypeOf[var_config.type],
     required |-> var_config.required]

\* TerraformModuleTool.initialize_tool, the root validator that builds the
\* descriptor: the port answers `kind`; ok is FALSE where it raises ValueError.
initialize_tool(entry, idx, name, tool_config, action, with_pr, kind, scripts) ==
    LET disc == get_variables(entry, kind)
        variables == disc.variables
        args == [k \in 1..Len(variables) |-> ModuleArg(variables[k])]
    IN IF disc.raised \/ Len(disc.errors) > 0 \/ Len(variables) = 0
       THEN [ok |-> FALSE, tool |-> None]
       ELSE IF Len(args) = 0 \/ ~scripts
       THEN [ok |-> FALSE, tool |-> None]
       ELSE [ok |-> TRUE,
             tool |-> [name |-> name, action |-> action, with_pr |-> with_pr,
                       args |-> args, source |-> tool_config.source,
                       module |-> idx]]

\* create_terraform_module_tool(module_config, action, with_pr): kind is "tool",
\* "none" (it returned None) or "raise" (its own handler raised); calls are the
\* answers of the port it consumed.
create_terraform_module_tool(entry, idx, action, with_pr, kind1, kind2, scripts) ==
    LET module_config == entry.config
        first == get_variables(entry, kind1)
        module_name == CleanModuleName[module_config]
        tool_config ==
            [name |-> module_name,
             source |-> [location |-> module_config.url,
                         version |-> IF Truthy(module_config.ref)
                                     THEN module_config.ref ELSE "latest",
                         path |-> module_config.path]]
        action_suffix == IF action = "plan" /\ with_pr THEN "_plan_pr" ELSE "_" \o action
        tool_name == "tf_" \o module_name \o action_suffix
        built == initialize_tool(entry, idx, tool_name, tool_config, action, with_pr,
                                 kind2, scripts)
    IN IF module_config.url = None
       THEN [kind |-> "raise", tool |-> None, calls |-> <<>>]
       ELSE IF first.raised \/ Len(first.errors) > 0
       THEN [kind |-> "none", tool |-> None, calls |-> <<kind1>>]
       ELSE IF ~built.ok
       THEN [kind |-> "none", tool |-> None, calls |-> <<kind1, kind2>>]
       ELSE [kind |-> "tool", tool |-> built.tool, calls |-> <<kind1, kind2>>]

\* Where the loops of _initialize_module_tools go next: the next action of the
\* module, or (after the last action, or on `continue`) the next module.
NextAction(skip_module) ==
    IF skip_module \/ step = Len(ModuleActions)
    THEN cursor' = cursor + 1 /\ step' = 1
    ELSE cursor' = cursor /\ step' = step + 1

\* initialize_tools up to the module stage
InitializeTools ==
    /\ pipeline = "init"
    /\ pc = "start"
    /\ IF ~config.present
       THEN /\ pc' = "done"
            /\ outcome' = "raised ConfigurationError"
            /\ message' = "No configuration provided"
       ELSE /\ pc' = IF Len(modules) > 0 THEN "modules" ELSE "reverse"
            /\ UNCHANGED <<outcome, message>>
    /\ UNCHANGED <<pipeline, config, modules, cursor, step, tools, errors,
                   registry, printed, result, port>>

\* One pass of the inner loop of _initialize_module_tools: create the tool of
\* module `cursor` for action `step` and register it.
CreateModuleTool ==
    /\ pipeline = "init"
    /\ pc = "modules"
    /\ cursor <= Len(modules)
    /\ \E env \in Environments :
       \E made \in {create_terraform_module_tool(modules[cursor], cursor, ModuleActions[step], FALSE,
                                                 env.kind1, env.kind2, env.scripts)} :
          LET action == ModuleActions[step]
              module_name == ModuleKey(cursor)
          IN /\ port' = [port EXCEPT ![cursor] = NoteCalls(@, made.calls)]
             /\ IF made.kind = "tool"
                THEN /\ tools' = Append(tools, made.tool)
                     /\ IF env.registered
                        THEN /\ registry' = Append(registry, made.tool)
                             /\ errors' = errors
                             /\ NextAction(FALSE)
                        ELSE /\ registry' = registry
                             /\ errors' = Append(errors,
                                    "Failed to create tools for module " \o module_name)
                             /\ NextAction(TRUE)
                ELSE IF made.kind = "none"
                THEN /\ errors' = Append(errors,
                            "Failed to create " \o action \o " tool for " \o module_name)
                     /\ NextAction(FALSE)
                     /\ UNCHANGED <<tools, registry>>
                ELSE /\ errors' = Append(errors,
                            "Failed to create tools for module " \o module_name)
                     /\ NextAction(TRUE)
                     /\ UNCHANGED <<tools, registry>>
    /\ UNCHANGED <<pipeline, config, modules, pc, printed, result,
                   outcome, message>>

\* A run that raises on any recorded error, even when tools were created
RaisesOnAnyError(module_errors, module_tools) == Len(module_errors) > 0

\* if errors and not tools: the run of _initialize_module_tools failed as a whole
TotalFailure(module_errors, module_tools) ==
    Len(module_errors) > 0 /\ Len(module_tools) = 0

\* The end of _initialize_module_tools and what initialize_tools does with it
ModuleToolsDone ==
    /\ pipeline = "init"
    /\ pc = "modules"
    /\ cursor > Len(modules)
    /\ IF TotalFailure(errors, tools)
       THEN /\ pc' = "done"
            /\ outcome' = "raised ConfigurationError"
            /\ message' = "Failed to initialize any module tools: " \o Join(errors, "; ")
            /\ result' = result
       ELSE /\ pc' = "reverse"
            /\ result' = result \o tools
            /\ UNCHANGED <<outcome, message>>
    /\ UNCHANGED <<pipeline, config, modules, cursor, step, tools, errors,
                   registry, printed, port>>

\* TerraformerTool.get_enabled_providers(config): the requested providers that
\* the supported table holds, none unless reverse engineering is enabled. The
\* class TerraformerTool defines no such method; only a base class outside the
\* repository could provide it.
get_enabled_providers(cfg) ==
    IF ~cfg.enable_reverse_terraform THEN <<>>
    ELSE SelectSeq(cfg.reverse_terraform_providers, LAMBDA p : p \in SupportedProviders)

\* TerraformerTool.SUPPORTED_PROVIDERS: the display name and the credential
\* environment variables of each provider
SUPPORTED_PROVIDERS ==
    [aws |-> [name |-> "AWS", env_vars |-> <<"AWS_PROFILE">>],
     gcp |-> [name |-> "Google Cloud",
              env_vars |-> <<"GOOGLE_CREDENTIALS", "GOOGLE_PROJECT">>],
     azure |-> [name |-> "Azure",
                env_vars |-> <<"AZURE_SUBSCRIPTION_ID", "AZURE_CLIENT_ID",
                               "AZURE_CLIENT_SECRET", "AZURE_TENANT_ID">>]]

\* TerraformerTool(name, description, args, env): the descriptor the
\* constructor makes. TerraformerToolConfig validates env into a list of its
\* own (the list handed in is left as it is); the provider is the last part
\* of the name, and the variables of a supported provider are added to env.
TerraformerTool(name, action, args, env) ==
    LET provider == IF Contains(name, "_") THEN Last(Split(name, "_")) ELSE None
    IN [name |-> name, action |-> action, args |-> args,
        env |-> IF provider \in DOMAIN SUPPORTED_PROVIDERS
                THEN env \o SUPPORTED_PROVIDERS[provider].env_vars
                ELSE env,
        module |-> 0]

\* _initialize_provider_tools(provider) where the construction of the import
\* tool and of the scan tool succeeds or raises: both are made in one try
\* block, the import tool first
provider_tools(provider, import_ok, scan_ok) ==
    IF ~Truthy(provider) \/ provider \notin SupportedProviders THEN <<>>
    ELSE IF ~import_ok THEN <<>>
    ELSE <<TerraformerTool(
              "terraform_import_" \o provider, "import",
              <<[name |-> "resource_type", type |-> "str", required |-> TRUE],
                [name |-> "resource_id", type |-> "str", required |-> TRUE],
                [name |-> "output_dir", type |-> "str", required |-> FALSE]>>,
              SUPPORTED_PROVIDERS[provider].env_vars)>>
         \o (IF ~scan_ok THEN <<>>
             ELSE <<TerraformerTool(
                       "terraform_scan_" \o provider, "scan",
                       <<[name |-> "resource_types", type |-> "str", required |-> FALSE],
                         [name |-> "output_format", type |-> "str", required |-> FALSE]>>,
                       SUPPORTED_PROVIDERS[provider].env_vars)>>)

\* _initialize_provider_tools(provider) where both constructions succeed
initialize_provider_tools(provider) == provider_tools(provider, TRUE, TRUE)

\* The number of parameters of _initialize_provider_tools, and the number of
\* arguments _initialize_reverse_terraform_tools calls it with (provider,
\* tool_registry): a call with another number of arguments raises TypeError.
ProviderToolsParameters == 1

\* A call that hands over as many arguments as the function has parameters
MatchingArguments == ProviderToolsParameters

ProviderToolsArguments == 2

\* _initialize_reverse_terraform_tools(config): a provider whose call raises is
\* logged and skipped
RECURSIVE ProviderLoop(_)
ProviderLoop(enabled_providers) ==
    IF Len(enabled_providers) = 0 THEN <<>>
    ELSE (IF ProviderToolsArguments # ProviderToolsParameters
          THEN <<>>
          ELSE initialize_provider_tools(Head(enabled_providers)))
         \o ProviderLoop(Tail(enabled_providers))

initialize_reverse_terraform_tools(cfg) == ProviderLoop(get_enabled_providers(cfg))

\* The message of the ConfigurationError that initialize_tools makes of the
\* AttributeError of a missing TerraformerTool.get_enabled_providers
NoSuchMethodMessage ==
    "Failed to initialize tools: type object 'TerraformerTool' has no attribute 'get_enabled_providers'"

\* initialize_tools: the reverse engineering stage. Where the stage is enabled
\* the lookup of get_enabled_providers either finds the method or raises
\* AttributeError, which initialize_tools turns into a ConfigurationError.
ReverseTerraformTools ==
    /\ pipeline = "init"
    /\ pc = "reverse"
    /\ \E has_method \in (IF terraform_config(config).enable_reverse_terraform
                          THEN BOOLEAN ELSE {TRUE}) :
          IF has_method
          THEN /\ pc' = "final"
               /\ result' = IF terraform_config(config).enable_reverse_terraform
                            THEN result \o initialize_reverse_terraform_tools(config)
                            ELSE result
               /\ UNCHANGED <<outcome, message>>
          ELSE /\ pc' = "done"
               /\ outcome' = "raised ConfigurationError"
               /\ message' = NoSuchMethodMessage
               /\ result' = result
    /\ UNCHANGED <<pipeline, config, modules, cursor, step, tools, errors,
                   registry, printed, port>>

\* A last check that lets an empty list through
NeverEmpty(created) == FALSE

\* if not tools: nothing was created from the configuration
NoToolsCreated(created) == Len(created) = 0

\* initialize_tools: the last check and the return
InitializeToolsDone ==
    /\ pipeline = "init"
    /\ pc = "final"
    /\ pc' = "done"
    /\ IF NoToolsCreated(result)
       THEN /\ outcome' = "raised ConfigurationError"
            /\ message' = "No tools were created from configuration"
       ELSE /\ outcome' = "returned"
            /\ message' = message
    /\ UNCHANGED <<pipeline, config, modules, cursor, step, tools, errors,
                   registry, printed, result, port>>

-----------------------------------------------------------------------------
(* initialize_terraform_tools and load_terraform_tools.                    *)

\* _create_arg_from_variable(var)
create_arg_from_variable(var) ==
    [name |-> var.name, type |-> "string", required |-> var.required]

SourceConfigArg == [name |-> "source_config", type |-> "object", required |-> TRUE]

\* register_terraform_tools(module_name, config, variables): the three
\* descriptors in the order they are registered
register_terraform_tools(idx, module_name, module_config, variables) ==
    LET variable_args == [k \in 1..Len(variables) |-> create_arg_from_variable(variables[k])]
        source == [location |-> module_config.url]
    IN <<[name |-> "terraform_" \o module_name \o "_plan", action |-> "plan",
          args |-> variable_args \o <<SourceConfigArg>>, source |-> source, module |-> idx],
         [name |-> "terraform_" \o module_name \o "_apply", action |-> "apply",
          args |-> variable_args \o <<SourceConfigArg>>, source |-> source, module |-> idx],
         [name |-> "terraform_" \o module_name \o "_vars", action |-> "vars",
          args |-> <<SourceConfigArg>>, source |-> source, module |-> idx]>>

\* A loader that registers the tools of a module without variables
AnyVariables(variables) == FALSE

\* if not variables: the module is skipped
NoVariables(variables) == Len(variables) = 0

\* What one pass of the loop of load_terraform_tools may meet: the answer of
\* the port and the register call that raises (0: none does). A register call
\* the pass never makes is fixed.
LoaderEnvironments ==
    {e \in [kind : Responses, fail_at : 0..3] :
        e.kind \notin {"ok", "errors_vars"} => e.fail_at = 0}

\* initialize_terraform_tools up to load_terraform_tools
InitializeTerraformTools ==
    /\ pipeline = "loader"
    /\ pc = "start"
    /\ IF Len(modules) = 0
       THEN /\ pc' = "done"
            /\ outcome' = "raised InitializationError"
            /\ message' = "No configuration files found"
       ELSE /\ pc' = "load"
            /\ UNCHANGED <<outcome, message>>
    /\ UNCHANGED <<pipeline, config, modules, cursor, step, tools, errors,
                   registry, printed, result, port>>

\* One pass of the loop of load_terraform_tools: one configuration file
LoadTerraformTools ==
    /\ pipeline = "loader"
    /\ pc = "load"
    /\ cursor <= Len(modules)
    /\ \E env \in LoaderEnvironments :
          LET entry == modules[cursor]
              module_name == entry.config.name
              filename == ModuleKey(cursor) \o ".json"
              disc == get_variables(entry, env.kind)
              error_lines == [k \in 1..Len(disc.errors) |-> "Error for " \o module_name]
              made == register_terraform_tools(cursor, module_name, entry.config,
                                               disc.variables)
          IN IF module_name = None
             THEN /\ printed' = Append(printed, "Failed to load module from " \o filename)
                  /\ UNCHANGED <<registry, port>>
             ELSE /\ port' = [port EXCEPT ![cursor] = NoteCall(@, env.kind)]
                  /\ IF disc.raised
                     THEN /\ printed' = Append(printed,
                                 "Failed to load module from " \o filename)
                          /\ registry' = registry
                     ELSE IF NoVariables(disc.variables)
                     THEN /\ printed' = printed \o error_lines \o
                                 <<"No variables found for module " \o module_name>>
                          /\ registry' = registry
                     ELSE IF env.fail_at # 0
                     THEN /\ registry' = registry \o SubSeq(made, 1, env.fail_at - 1)
                          /\ printed' = printed \o error_lines \o
                                 <<"Failed to load module from " \o filename>>
                     ELSE /\ registry' = registry \o made
                          /\ printed' = printed \o error_lines
    /\ cursor' = cursor + 1
    /\ UNCHANGED <<pipeline, config, modules, pc, step, tools, errors, result,
                   outcome, message>>

\* The end of load_terraform_tools and of initialize_terraform_tools: no
\* exception reached initialize_terraform_tools, so it returns
InitializeTerraformToolsDone ==
    /\ pipeline = "loader"
    /\ pc = "load"
    /\ cursor > Len(modules)
    /\ pc' = "done"
    /\ outcome' = "returned"
    /\ UNCHANGED <<pipeline, config, modules, cursor, step, tools, errors,
                   registry, printed, result, message, port>>

-----------------------------------------------------------------------------

Next ==
    \/ InitializeTools
    \/ CreateModuleTool
    \/ ModuleToolsDone
    \/ ReverseTerraformTools
    \/ InitializeToolsDone
    \/ InitializeTerraformTools
    \/ LoadTerraformTools
    \/ InitializeTerraformToolsDone

Spec == Init /\ [][Next]_vars

-----------------------------------------------------------------------------
(* What the properties below speak of.                                     *)

\* The loop has left module m behind.
Completed(m) == m \in 1..Len(modules) /\ m < cursor

\* The loop over the modules is over (the run went on, returned or raised).
LoopOver ==
    \/ pipeline = "init" /\ config.present /\ Len(modules) > 0
                         /\ pc \in {"reverse", "final", "done"}
    \/ pipeline = "loader" /\ Len(modules) > 0 /\ pc = "done"

\* The actions a run asks of every module.
RequestedActions ==
    IF pipeline = "init" THEN {"plan", "apply"} ELSE {"plan", "apply", "vars"}

\* The descriptors of module m among seq (positions).
OfModule(seq, m) == {k \in 1..Len(seq) : seq[k].module = m}

\* The actions of the descriptors registered for module m.
RegisteredActions(m) == {registry[k].action : k \in OfModule(registry, m)}

\* Every descriptor the run asks of module m was created and registered.
Assembled(m) == RequestedActions \subseteq RegisteredActions(m)

\* The entries of the error list that name module m.
ErrorsOf(m) ==
    {k \in 1..Len(errors) :
        LET e == errors[k]
            key == ModuleKey(m)
        IN Len(e) >= Len(key) /\ SubSeq(e, Len(e) - Len(key) + 1, Len(e)) = key}

\* The lines the loader printed that report a module as failed.
FailureLines ==
    {k \in 1..Len(printed) :
        StartsWith(printed[k], "Failed to load") \/ StartsWith(printed[k], "No variables")}

\* The descriptors the run produced: the list the batch initializer built, or
\* for the loader what it registered.
Produced == IF pipeline = "init" THEN tools ELSE registry

\* The failures the run recorded.
RecordedFailures ==
    IF pipeline = "init" THEN Len(errors) ELSE Cardinality(FailureLines)

AggregateMessage == "Failed to initialize any module tools: "

-----------------------------------------------------------------------------
(* C1: in a run of _initialize_module_tools a failing module never stops  *)
(* the loop: once the run is over every module was handled (the port was   *)
(* asked about every module that has a url), and when some module was      *)
(* assembled the run did not raise and handed back every descriptor of     *)
(* every assembled module, wherever the failing modules stand.             *)
C1_FailureNeverStopsBatch ==
    (pipeline = "init" /\ LoopOver) =>
        /\ cursor = Len(modules) + 1
        /\ \A m \in 1..Len(modules) :
              modules[m].config.url # None => port[m].calls >= 1
        /\ (\E m \in 1..Len(modules) : Assembled(m)) =>
              /\ ~(outcome = "raised ConfigurationError"
                     /\ StartsWith(message, AggregateMessage))
              /\ \A m \in 1..Len(modules) :
                    Assembled(m) =>
                       \A act \in RequestedActions :
                          \E k \in OfModule(result, m) : result[k].action = act

\* A finished run that returned although its first module failed and a later
\* one was assembled.
C1_Witness ==
    /\ pipeline = "init"
    /\ pc = "done"
    /\ outcome = "returned"
    /\ Len(modules) = 2
    /\ OfModule(registry, 1) = {}
    /\ ErrorsOf(1) # {}
    /\ Assembled(2)

(* C2: assembly is all-or-nothing per module: for every module the loop    *)
(* has left behind, either every descriptor asked of it is registered or   *)
(* none is.                                                               *)
C2_AllOrNothing ==
    \A m \in 1..Len(modules) :
        Completed(m) => (RegisteredActions(m) = {} \/ Assembled(m))

(* C3: a module for which the port returned errors on every call           *)
(* contributes no descriptor (nothing is registered for it) and its        *)
(* failure is recorded.                                                   *)
C3_DiscoveryErrorsAreFatal ==
    \A m \in 1..Len(modules) :
        (Completed(m) /\ port[m].calls > 0 /\ port[m].all_errors) =>
            /\ OfModule(registry, m) = {}
            /\ pipeline = "init" => ErrorsOf(m) # {}
            /\ pipeline = "loader" =>
                  \E k \in 1..Len(printed) :
                     printed[k] = "Error for " \o modules[m].config.name

(* C4: a finished run that produced no descriptor and recorded at least    *)
(* one module failure raised the aggregate error, whose message holds      *)
(* every recorded failure; it did not return.                             *)
C4_ZeroToolsRaisesAggregate ==
    (pc = "done" /\ LoopOver /\ Len(Produced) = 0 /\ RecordedFailures > 0) =>
        /\ outcome = "raised ConfigurationError"
        /\ StartsWith(message, AggregateMessage)
        /\ \A k \in 1..Len(errors) : Contains(message, errors[k])

(* C5: a finished run of initialize_tools with no descriptor and no        *)
(* recorded module error raised an error that is not the aggregate         *)
(* module-failure error; it did not return an empty list.                 *)
C5_NoToolsConfigured ==
    (pipeline = "init" /\ pc = "done" /\ Len(result) = 0 /\ Len(errors) = 0) =>
        /\ outcome = "raised ConfigurationError"
        /\ ~StartsWith(message, AggregateMessage)
        /\ message # NoSuchMethodMessage =>
              message \in {"No tools were created from configuration",
                           "No configuration provided"}

\* A run over a present configuration that created nothing and recorded nothing.
C5_Witness ==
    /\ pipeline = "init"
    /\ pc = "done"
    /\ config.present
    /\ Len(result) = 0
    /\ Len(errors) = 0
    /\ message = "No tools were created from configuration"

(* C6: once the loop of _initialize_module_tools is over, the error list   *)
(* has exactly one entry per module that failed.                          *)
C6_OneErrorPerFailedModule ==
    (pipeline = "init" /\ LoopOver) =>
        Len(errors) = Cardinality({m \in 1..Len(modules) : ~Assembled(m)})

(* C7: a module for which the port returned no variables and no errors     *)
(* (on every call) has no descriptor: none created, none registered.      *)
C7_NoVariablesNoDescriptors ==
    \A m \in 1..Len(modules) :
        (Completed(m) /\ port[m].calls > 0 /\ port[m].all_empty) =>
            /\ OfModule(registry, m) = {}
            /\ OfModule(tools, m) = {}

\* A module the loop has left behind after the port answered every call about
\* it with no variables and no errors: both actions tried, or the file loaded.
C7_Witness ==
    \E m \in 1..Len(modules) :
        /\ Completed(m)
        /\ port[m].all_empty
        /\ port[m].calls = IF pipeline = "init" THEN 4 ELSE 1

(* C8: every assembled module has exactly three registered descriptors:    *)
(* a plan (or plan_pr), an apply and a vars descriptor.                   *)
C8_ThreeDescriptorsPerModule ==
    \A m \in 1..Len(modules) :
        (Completed(m) /\ Assembled(m)) =>
            /\ Cardinality(OfModule(registry, m)) = 3
            /\ RegisteredActions(m) \in {{"plan", "apply", "vars"},
                                        {"plan_pr", "apply", "vars"}}

\* The arguments of a descriptor that are not the source_config argument.
ModuleArgs(d) == SelectSeq(d.args, LAMBDA arg : arg.name # "source_config")

(* C9: every registered descriptor carries the full argument set           *)
(* synthesized from its module's variables plus exactly one source_config  *)
(* argument, which is required.                                           *)
C9_FullArgsPlusSourceConfig ==
    \A k \in 1..Len(registry) :
        LET d == registry[k]
            variables == modules[d.module].vars
        IN /\ Cardinality({n \in 1..Len(d.args) : d.args[n].name = "source_config"}) = 1
           /\ \A n \in 1..Len(d.args) :
                 d.args[n].name = "source_config" => d.args[n].required
           /\ Len(ModuleArgs(d)) = Len(variables)
           /\ \A n \in 1..Len(variables) : ModuleArgs(d)[n].name = variables[n].name

(* C10: descriptors registered for two distinct module references have     *)
(* different names.                                                       *)
C10_UniqueToolNames ==
    \A k1, k2 \in 1..Len(registry) :
        (/\ registry[k1].module # registry[k2].module
         /\ modules[registry[k1].module].config # modules[registry[k2].module].config)
        => registry[k1].name # registry[k2].name

-----------------------------------------------------------------------------
(* The pure functions of the pipeline, run one call at a time: the          *)
(* normalizer (parse_module_urls), the name deriver                         *)
(* (_get_clean_module_name) and the argument synthesizer                    *)
(* (map_terraform_type_to_arg_type, truncate_description, the default       *)
(* conversion of initialize_tool, _create_arg_from_variable). In these runs *)
(* `pipeline` names the function, `config` holds its input, `result` what   *)
(* it returned and `outcome` how it ended.                                  *)

\* The longest list of entries the normalizer is given.
MaxUrls == 3

WhitespaceChars == " \t"

\* s.lstrip()
RECURSIVE LStripSpace(_)
LStripSpace(s) ==
    IF Len(s) > 0 /\ Contains(WhitespaceChars, SubSeq(s, 1, 1))
    THEN LStripSpace(SubSeq(s, 2, Len(s)))
    ELSE s

\* s.strip()
Strip(s) == LStripSpace(RStrip(s, WhitespaceChars))

\* d.get(key): None where the mapping has no such key
Get(d, key) == IF key \in DOMAIN d THEN d[key] ELSE None

\* a or b, on optional strings
Or(first, second) == IF Truthy(first) THEN first ELSE second

\* The empty mapping that is the default of 'metadata'
EmptyMapping == "{}"

\* A normalizer that keeps an entry whose url is blank
NeverBlank(url) == FALSE

\* if not url: the entry is dropped
IsBlankUrl(url) == url = ""

\* A normalizer that prefers version over ref
VersionFirst(ref, version, branch) == Or(Or(version, ref), branch)

\* config.get('ref') or config.get('version') or config.get('branch')
FirstSet(ref, version, branch) == Or(Or(ref, version), branch)

NormalizedKeys ==
    {"url", "ref", "path", "name", "description", "provider", "resource_type", "metadata"}

\* _normalize_module_config(config): <<the canonical record>>, or <<>> where
\* it returns None and the entry is dropped (blank url, or
\* config['url'].strip() raised: no 'url' key or a url that is None)
normalize_module_config(item) ==
    IF "url" \notin DOMAIN item \/ item["url"] = None THEN <<>>
    ELSE LET url == Strip(item["url"])
             normalized ==
                 [k \in NormalizedKeys |->
                     IF k = "url" THEN url
                     ELSE IF k = "ref"
                     THEN FirstSet(Get(item, "ref"), Get(item, "version"), Get(item, "branch"))
                     ELSE IF k = "metadata"
                     THEN (IF "metadata" \in DOMAIN item THEN item["metadata"] ELSE EmptyMapping)
                     ELSE Get(item, k)]
         IN IF IsBlankUrl(url) THEN <<>>
            ELSE <<[k \in {key \in NormalizedKeys : normalized[key] # None} |-> normalized[k]]>>

\* The loop at the end of parse_module_urls: normalize each, keep the kept
RECURSIVE NormalizeAll(_)
NormalizeAll(items) ==
    IF Len(items) = 0 THEN <<>>
    ELSE normalize_module_config(Head(items)) \o NormalizeAll(Tail(items))

\* What stands for a lookup that raised
Raised == "<raised>"

\* The mapping shape: the url of one module_config; Raised where the lookup
\* of 'source' raises (KeyError: no such key; TypeError: '/' in None)
SourceUrl(module_config) ==
    IF "source" \notin DOMAIN module_config \/ module_config["source"] = None
    THEN Raised
    ELSE LET source == module_config["source"]
         IN IF Contains(source, "/") /\ Len(Split(source, "/")) = 3
            THEN "registry.terraform.io/" \o source
            ELSE source

\* The entry the mapping shape makes of (module_name, module_config)
MappingItem(module_name, module_config) ==
    [url |-> SourceUrl(module_config), name |-> module_name,
     version |-> Get(module_config, "version")]

\* parse_module_urls(urls_input): urls_input is given with its shape, one of
\* "string" (the comma-separated string, given as the pieces the commas
\* separate), "list" (of strings), "dicts" (list of mappings) and "mapping"
\* (module name -> module config, as the sequence of its items)
parse_module_urls(urls_input) ==
    LET value == urls_input.value
        text == IF urls_input.shape = "string" THEN Join(value, ",") ELSE ""
    IN IF Len(value) = 0 \/ (urls_input.shape = "string" /\ text = "") THEN <<>>
       ELSE IF urls_input.shape = "string"
       THEN LET pieces == Split(text, ",")
                kept == SelectSeq(pieces, LAMBDA u : Strip(u) # "")
            IN NormalizeAll([k \in 1..Len(kept) |-> [url |-> Strip(kept[k])]])
       ELSE IF urls_input.shape = "list"
       THEN NormalizeAll([k \in 1..Len(value) |-> [url |-> Strip(value[k])]])
       ELSE IF urls_input.shape = "dicts"
       THEN NormalizeAll(SelectSeq(value, LAMBDA d : "url" \in DOMAIN d))
       ELSE LET entries == [k \in 1..Len(value) |->
                               MappingItem(value[k][1], value[k][2])]
            IN IF \E k \in 1..Len(entries) : entries[k].url = Raised
               THEN <<>>
               ELSE NormalizeAll(entries)

\* The urls the normalizer is given: plain, padded and blank
UrlInputs ==
    {"https://github.com/acme/terraform-aws-vpc", " acme/vpc/aws ", "", "  ",
     "git@github.com:acme/net.git\t"}

\* The mappings the normalizer is given in a list: with and without url,
\* with explicit nulls, with ref, version and branch in every combination
DictInputs ==
    {[url |-> "https://github.com/acme/terraform-aws-vpc"],
     [url |-> " acme/vpc/aws ", ref |-> "v1", version |-> "2.0.0", branch |-> "main"],
     [url |-> "acme/eks/aws", ref |-> None, version |-> "2.0.0", path |-> None],
     [url |-> "acme/rds/aws", ref |-> "", branch |-> "dev", name |-> "Data-Base"],
     [url |-> "  ", name |-> "blank"],
     [name |-> "no-url"],
     [url |-> None]}

\* The items of the mapping shape: module name and module config
MappingInputs ==
    {<<"vpc", [source |-> "terraform-aws-modules/vpc/aws", version |-> "5.0.0"]>>,
     <<"net", [source |-> "https://github.com/acme/terraform-aws-net"]>>,
     <<"blank", [source |-> " "]>>,
     <<"bad", [version |-> "1.0.0"]>>,
     <<"null", [source |-> None]>>}

\* The comma-separated string of a list of urls, as its pieces
StringShape(urls) == [shape |-> "string", value |-> urls]

ListShape(urls) == [shape |-> "list", value |-> urls]

\* The list of {url} mappings of a list of urls
DictShape(urls) == [shape |-> "dicts", value |-> [k \in 1..Len(urls) |-> [url |-> urls[k]]]]

\* What parse_module_urls is called with, shape by shape
UrlListInputs ==
    LET url_lists == SeqsUpTo(UrlInputs, MaxUrls)
    IN {StringShape(u) : u \in url_lists} \cup {ListShape(u) : u \in url_lists}

DictListInputs == {[shape |-> "dicts", value |-> d] : d \in SeqsUpTo(DictInputs, MaxUrls)}

MappingListInputs ==
    {[shape |-> "mapping", value |-> m] :
        m \in {q \in SeqsUpTo(MappingInputs, MaxUrls) :
                  \A k1, k2 \in 1..Len(q) : k1 # k2 => q[k1][1] # q[k2][1]}}

\* The urls the name deriver is given: git hosts with and without the .git
\* suffix, a trailing slash and a /tree/ part, other hosts, registry
\* coordinates, and a url of non-word characters only
DeriveUrls ==
    {"https://github.com/terraform-aws-modules/terraform-aws-vpc",
     "https://github.com/acme/terraform-aws-kit.git",
     "https://github.com/acme/terraform-aws-git",
     "https://gitlab.com/acme/Net-Tools/",
     "https://github.com/acme/terraform-aws-vpc/tree/main/modules/x",
     "git@github.com:acme/terraform-google-network.git",
     "https://example.com/modules/vpc/",
     "https://example.com/modules/my-mod.v2",
     "terraform-aws-modules/vpc/aws",
     "Acme/EKS/AWS",
     "acme/tree/aws",
     "a//b",
     "!!!"}

\* The canonical module references the name deriver is given
DeriveInputs ==
    {[NoFields EXCEPT !.url = u, !.name = n, !.provider = pr, !.resource_type = rt] :
        u \in DeriveUrls, n \in {None, "", "My-VPC"}, pr \in {None, "AWS"},
        rt \in {None, "S3-Bucket"}}

\* The input of a call of _get_clean_module_name
NameDeriverCall ==
    /\ pipeline = "get_clean_module_name"
    /\ config \in DeriveInputs

\* Python values as the synthesizer meets them in a default: the kind of the
\* value ("none", "str", "int", "float", "bool", "list", "dict") and its text:
\* the string itself, str() of a number or a bool, the JSON text of a list
\* or a dict.
PyValue(kind, text) == [kind |-> kind, text |-> text]

PyNone == PyValue("none", "")

\* str(value)
PyStr(value) ==
    IF value.kind = "none" THEN "None"
    ELSE IF value.kind \in {"list", "dict"} THEN Replace(value.text, "\"", "'")
    ELSE value.text

\* json.dumps(value)
JsonDumps(value) ==
    IF value.kind = "none" THEN "null"
    ELSE IF value.kind = "str" THEN "\"" \o value.text \o "\""
    ELSE IF value.kind = "bool" THEN Lower(value.text)
    ELSE IF value.kind = "float" /\ value.text = "inf" THEN "Infinity"
    ELSE IF value.kind = "float" /\ value.text = "nan" THEN "NaN"
    ELSE value.text

\* bool(value)
PyTruthy(value) ==
    /\ value.kind # "none"
    /\ value.text \notin {"", "0", "0.0", "False", "[]", "{}"}

\* The text is one or more decimal digits
RECURSIVE IsDigits(_)
IsDigits(s) ==
    /\ Len(s) > 0
    /\ Contains(DigitChars, SubSeq(s, 1, 1))
    /\ (Len(s) = 1 \/ IsDigits(SubSeq(s, 2, Len(s))))

\* The number a text of decimal digits writes
RECURSIVE StrToNat(_)
StrToNat(s) ==
    IF Len(s) = 0 THEN 0
    ELSE StrToNat(SubSeq(s, 1, Len(s) - 1)) * 10
         + (Find(DigitChars, SubSeq(s, Len(s), Len(s))) - 1)

\* str(n) of a natural number
RECURSIVE NatToStr(_)
NatToStr(n) ==
    IF n < 10 THEN SubSeq(DigitChars, n + 1, n + 1)
    ELSE NatToStr(n \div 10) \o SubSeq(DigitChars, (n % 10) + 1, (n % 10) + 1)

\* float(value): the error it raises ("" where none), else whether the
\* float is inf or nan ("" where neither), its sign and its whole part.
\* Texts are read as plain decimals ([sign] digits [. digits]), inf, infinity
\* or nan, surrounded by whitespace, in any letter case.
PyFloat(value) ==
    LET trimmed == Lower(Strip(value.text))
        signed == StartsWith(trimmed, "-") \/ StartsWith(trimmed, "+")
        body == IF signed THEN SubSeq(trimmed, 2, Len(trimmed)) ELSE trimmed
        parts == Split(body, ".")
        number(special, whole) ==
            [error |-> "", special |-> special,
             negative |-> StartsWith(trimmed, "-"), whole |-> whole]
    IN IF value.kind \in {"none", "list", "dict"}
       THEN [error |-> "TypeError", special |-> "", negative |-> FALSE, whole |-> 0]
       ELSE IF value.kind = "bool"
       THEN number("", IF value.text = "True" THEN 1 ELSE 0)
       ELSE IF body \in {"inf", "infinity"} THEN number("inf", 0)
       ELSE IF body = "nan" THEN number("nan", 0)
       ELSE IF /\ Len(parts) <= 2
               /\ \A k \in 1..Len(parts) : parts[k] = "" \/ IsDigits(parts[k])
               /\ \E k \in 1..Len(parts) : parts[k] # ""
       THEN number("", StrToNat(parts[1]))
       ELSE [error |-> "ValueError", special |-> "", negative |-> FALSE, whole |-> 0]

\* str(int(float(value))): the error it raises ("" where none) and the text
IntOfFloat(value) ==
    LET float == PyFloat(value)
    IN IF float.error # "" THEN [error |-> float.error, text |-> ""]
       ELSE IF float.special = "inf" THEN [error |-> "OverflowError", text |-> ""]
       ELSE IF float.special = "nan" THEN [error |-> "ValueError", text |-> ""]
       ELSE [error |-> "",
             text |-> (IF float.negative /\ float.whole # 0 THEN "-" ELSE "")
                      \o NatToStr(float.whole)]

MAX_DESCRIPTION_LENGTH == 1024

\* The last step of truncate_description
Truncate(text) ==
    IF Len(text) > MAX_DESCRIPTION_LENGTH
    THEN SubSeq(text, 1, MAX_DESCRIPTION_LENGTH - 3) \o "..."
    ELSE text

\* truncate_description(description, var_config): the error it raises ("" if
\* none) and the text. var_config has the keys type and required, the key
\* default where has_default, and its default may be None (PyNone).
truncate_description(description, var_config) ==
    LET type == var_config.type
        named == IF description = "" \/ description = None
                 THEN "No description provided" ELSE description
        status == IF var_config.required THEN "Required" ELSE "Optional"
        with_status == named \o "\n[" \o status \o "]"
        default == var_config.default
        with_default ==
            IF var_config.has_default /\ default.kind # "none"
            THEN with_status \o "\n(Default value if not passed: "
                 \o (IF default.kind \in {"dict", "list"}
                     THEN JsonDumps(default) ELSE PyStr(default))
                 \o ")"
            ELSE with_status
        complex == type \notin {"string", "number", "bool"}
        is_list == Contains(Lower(type), "list")
        is_map == Contains(Lower(type), "map") \/ Contains(Lower(type), "object")
        example == IF is_list
                   THEN (IF PyTruthy(default) THEN JsonDumps(default)
                         ELSE "[\"item1\", \"item2\"]")
                   ELSE (IF PyTruthy(default) THEN JsonDumps(default)
                         ELSE "{\"key1\": \"value1\", \"key2\": \"value2\"}")
        composed ==
            IF ~complex THEN with_default
            ELSE IF is_list \/ is_map
            THEN with_default \o "\nProvide as JSON string, example: " \o example
            ELSE with_default \o "\nProvide as JSON string"
    IN IF complex /\ (is_list \/ is_map) /\ ~var_config.has_default
       THEN [error |-> "KeyError", text |-> ""]
       ELSE [error |-> "", text |-> Truncate(composed)]

\* The default conversion of initialize_tool: the error that leaves it ("" if
\* none) and arg.default, None where the variable has no default
ConvertDefault(arg_type, var_config) ==
    LET default_value == var_config.default
        converted == IntOfFloat(default_value)
    IN IF ~var_config.has_default \/ default_value.kind = "none"
       THEN [error |-> "", text |-> None]
       ELSE IF arg_type = "str"
       THEN [error |-> "",
             text |-> IF default_value.kind \in {"dict", "list"}
                      THEN JsonDumps(default_value) ELSE PyStr(default_value)]
       ELSE IF arg_type = "int"
       THEN (IF converted.error \in {"ValueError", "TypeError"}
             THEN [error |-> "", text |-> "0"]
             ELSE converted)
       ELSE [error |-> "", text |-> Lower(PyStr(default_value))]

\* One pass of the loop over the variables in initialize_tool: the Arg made
\* of one variable; raised where the pass raises ValueError, which ends the
\* tool of the module
synthesize_arg(var_name, var_config) ==
    LET arg_type == map_terraform_type_to_arg_type(var_config.type)
        described == truncate_description(
                        IF var_config.has_description THEN var_config.description
                        ELSE "No description",
                        var_config)
        converted == ConvertDefault(arg_type, var_config)
    IN IF described.error # "" \/ converted.error # ""
       THEN [raised |-> TRUE, name |-> var_name, description |-> "",
             type |-> arg_type, required |-> var_config.required, default |-> None]
       ELSE [raised |-> FALSE, name |-> var_name, description |-> described.text,
             type |-> arg_type, required |-> var_config.required,
             default |-> converted.text]

\* The fence of three backquotes around the example; the apostrophe stands
\* for the backquote, which a string here cannot hold
CodeFence == "'''"

\* The description _create_arg_from_variable composes for a TerraformVariable:
\* var has name, description, base_type, example (the text of
\* get_example_value()), validation_rules (the line of each rule) and
\* default
arg_description(var) ==
    LET head == (IF Truthy(var.description) THEN var.description
                 ELSE "Variable: " \o var.name)
                \o "\n\nType: " \o var.base_type \o "\n"
        with_example ==
            IF var.base_type \in {"object", "map", "list", "set"}
            THEN head \o "\nExample Input:\n" \o CodeFence \o "json\n"
                 \o var.example \o "\n" \o CodeFence
            ELSE head
        rule_lines == [k \in 1..Len(var.validation_rules) |->
                          "- " \o var.validation_rules[k] \o "\n"]
        with_rules ==
            IF Len(var.validation_rules) > 0
            THEN with_example \o "\nValidation Rules:\n" \o Join(rule_lines, "")
            ELSE with_example
    IN IF var.default.kind # "none"
       THEN with_rules \o "\nDefault: " \o JsonDumps(var.default)
       ELSE with_rules

\* s repeated n times
RECURSIVE Repeat(_, _)
Repeat(s, n) ==
    IF n = 0 THEN ""
    ELSE IF n % 2 = 0 THEN LET half == Repeat(s, n \div 2) IN half \o half
    ELSE s \o Repeat(s, n - 1)

\* The defaults of the variables: texts that are and are not numbers,
\* numbers, infinity and not-a-number, a bool, a list and a dict
DefaultInputs ==
    {PyNone,
     PyValue("str", "abc"), PyValue("str", "3.0"), PyValue("str", " 42 "),
     PyValue("str", "inf"),
     PyValue("int", "3"), PyValue("float", "3.0"), PyValue("float", "-2.7"),
     PyValue("float", "inf"), PyValue("float", "nan"), PyValue("bool", "True"),
     PyValue("list", "[\"a\", \"b\"]"), PyValue("dict", "{\"k\": \"v\"}")}

\* The descriptions of the variables: short ones, and ones that bring the
\* composed description just under, just over and far over the limit
DescriptionInputs ==
    {"", "Size of the pool", Repeat("x", 1013), Repeat("x", 1014),
     Repeat("lorem ipsum ", 100)}

\* The variables (var_config) the synthesizer of initialize_tool is given
VarConfigInputs ==
    {[type |-> ty, has_description |-> hd, description |-> d, required |-> rq,
      has_default |-> hv, default |-> dv] :
        ty \in {"string", "number", "bool", "list(string)", "map(string)",
                 "set(string)", "object({name = string})", "any"},
        hd \in BOOLEAN, d \in DescriptionInputs, rq \in BOOLEAN,
        hv \in BOOLEAN, dv \in DefaultInputs}

\* The TerraformVariable objects _create_arg_from_variable is given
TerraformVariableInputs ==
    {[name |-> "size", description |-> d, base_type |-> bt, example |-> ex,
      validation_rules |-> vr, required |-> rq, default |-> dv] :
        d \in {None, "Size of the pool", Repeat("lorem ipsum ", 100)},
        bt \in {"string", "number", "list", "map"},
        ex \in {"[]", "[" \o Repeat("\"item\", ", 200) \o "\"item\"]"},
        vr \in {<<>>, <<"size must be positive", "size must be even">>},
        rq \in BOOLEAN,
        dv \in {PyNone, PyValue("str", "abc"), PyValue("list", "[\"a\", \"b\"]")}}

\* The input of one pass of the variable loop of initialize_tool: a key that
\* is absent has the value of no use
SynthesizerCall ==
    /\ pipeline = "initialize_tool"
    /\ config \in {v \in VarConfigInputs :
                      /\ ~v.has_description => v.description = ""
                      /\ ~v.has_default => v.default = PyNone}

\* The input of a call of _create_arg_from_variable
LoaderArgCall ==
    /\ pipeline = "create_arg_from_variable"
    /\ config \in TerraformVariableInputs

\* The input of a call of _initialize_provider_tools: the provider, and
\* whether the construction of its import tool and of its scan tool succeeds
\* (the constructor reads scripts from disk and validates its arguments, and
\* raises ValueError where either fails)
ProviderToolsCall ==
    /\ pipeline = "initialize_provider_tools"
    /\ config \in {c \in [provider : SupportedProviders \cup {"", "not-a-provider"},
                          import_ok : BOOLEAN, scan_ok : BOOLEAN] :
                      c.provider \notin SupportedProviders => c.import_ok /\ c.scan_ok}

\* The Terraform types the type mapping is given: the base type and, for the
\* collection types, the parenthesised element shape
TypeInputs ==
    {[base |-> b, shape |-> ""] :
        b \in {"string", "number", "bool", "any", "list", "map", "object", "set", "tuple"}}
    \cup {[base |-> b, shape |-> sh] :
             b \in {"list", "map", "set"}, sh \in {"(string)", "(number)", "(bool)"}}
    \cup {[base |-> "object", shape |-> "({enabled = bool, size = number})"],
          [base |-> "tuple", shape |-> "([string, number, bool])"],
          [base |-> "list", shape |-> "(object({name = string}))"]}

\* The input of a call of map_terraform_type_to_arg_type
TypeMappingCall ==
    /\ pipeline = "map_terraform_type_to_arg_type"
    /\ config \in TypeInputs

\* The input of a call of parse_module_urls
NormalizerCall ==
    /\ pipeline = "parse_module_urls"
    /\ \/ config \in UrlListInputs
       \/ config \in DictListInputs
       \/ config \in MappingListInputs

\* Before a call: the function and its input are chosen, nothing has run
FnInit ==
    /\ \/ NormalizerCall
       \/ NameDeriverCall
       \/ TypeMappingCall
       \/ SynthesizerCall
       \/ LoaderArgCall
       \/ ProviderToolsCall
    /\ modules = <<>>
    /\ pc = "start"
    /\ cursor = 1
    /\ step = 1
    /\ tools = <<>>
    /\ errors = <<>>
    /\ registry = <<>>
    /\ printed = <<>>
    /\ result = None
    /\ outcome = "running"
    /\ message = None
    /\ port = <<>>

\* One call of parse_module_urls; it catches every exception
ParseModuleUrls ==
    /\ pipeline = "parse_module_urls"
    /\ pc = "start"
    /\ pc' = "done"
    /\ result' = parse_module_urls(config)
    /\ outcome' = "returned"
    /\ UNCHANGED <<pipeline, config, modules, cursor, step, tools, errors,
                   registry, printed, message, port>>

\* One call of _get_clean_module_name on a reference that has a url: no
\* statement of it can raise on strings
GetCleanModuleName ==
    /\ pipeline = "get_clean_module_name"
    /\ pc = "start"
    /\ pc' = "done"
    /\ result' = get_clean_module_name(config)
    /\ outcome' = "returned"
    /\ UNCHANGED <<pipeline, config, modules, cursor, step, tools, errors,
                   registry, printed, message, port>>

\* One call of map_terraform_type_to_arg_type on the text of a type
MapTerraformType ==
    /\ pipeline = "map_terraform_type_to_arg_type"
    /\ pc = "start"
    /\ pc' = "done"
    /\ result' = map_terraform_type_to_arg_type(config.base \o config.shape)
    /\ outcome' = "returned"
    /\ UNCHANGED <<pipeline, config, modules, cursor, step, tools, errors,
                   registry, printed, message, port>>

\* One pass of the variable loop of initialize_tool, on the variable "size"
SynthesizeArg ==
    /\ pipeline = "initialize_tool"
    /\ pc = "start"
    /\ pc' = "done"
    /\ \E made \in {synthesize_arg("size", config)} :
          /\ result' = made
          /\ outcome' = IF made.raised THEN "raised ValueError" ELSE "returned"
    /\ UNCHANGED <<pipeline, config, modules, cursor, step, tools, errors,
                   registry, printed, message, port>>

\* One call of _create_arg_from_variable
CreateArgFromVariable ==
    /\ pipeline = "create_arg_from_variable"
    /\ pc = "start"
    /\ pc' = "done"
    /\ result' = [raised |-> FALSE,
                  name |-> create_arg_from_variable(config).name,
                  description |-> arg_description(config),
                  type |-> create_arg_from_variable(config).type,
                  required |-> create_arg_from_variable(config).required,
                  default |-> IF config.default.kind # "none"
                              THEN JsonDumps(config.default) ELSE None]
    /\ outcome' = "returned"
    /\ UNCHANGED <<pipeline, config, modules, cursor, step, tools, errors,
                   registry, printed, message, port>>

\* One call of _initialize_provider_tools
InitializeProviderTools ==
    /\ pipeline = "initialize_provider_tools"
    /\ pc = "start"
    /\ pc' = "done"
    /\ result' = provider_tools(config.provider, config.import_ok, config.scan_ok)
    /\ outcome' = "returned"
    /\ UNCHANGED <<pipeline, config, modules, cursor, step, tools, errors,
                   registry, printed, message, port>>

FnNext ==
    \/ ParseModuleUrls
    \/ GetCleanModuleName
    \/ MapTerraformType
    \/ SynthesizeArg
    \/ CreateArgFromVariable
    \/ InitializeProviderTools

FnSpec == FnInit /\ [][FnNext]_vars

-----------------------------------------------------------------------------
(* The normalizer.                                                         *)

\* A call of parse_module_urls has returned.
Parsed == pipeline = "parse_module_urls" /\ pc = "done"

(* C11: the normalizer is shape-independent: what it returns for a list of *)
(* url strings (none holding a comma; blank and padded ones included) is   *)
(* what it returns for the comma-separated string of the same urls and for *)
(* the list of {url} mappings of the same urls: same records, same order.  *)
C11_ShapeIndependent ==
    (Parsed /\ config.shape = "list"
            /\ \A k \in 1..Len(config.value) : ~Contains(config.value[k], ",")) =>
        /\ result = parse_module_urls(StringShape(config.value))
        /\ result = parse_module_urls(DictShape(config.value))

\* A list of three urls, one blank and one padded, of which two are kept
C11_Witness ==
    /\ Parsed
    /\ config.shape = "list"
    /\ Len(config.value) = 3
    /\ \E k \in 1..3 : config.value[k] = "  "
    /\ \E k \in 1..3 : config.value[k] = " acme/vpc/aws "
    /\ Len(result) = 2
    /\ \E k \in 1..2 : result[k].url = "acme/vpc/aws"

\* The url (source) of one entry of the input, None where it has none
EntryUrl(shape, entry) ==
    IF shape \in {"string", "list"} THEN entry
    ELSE IF shape = "dicts" THEN Get(entry, "url")
    ELSE Get(entry[2], "source")

\* The entries of the input whose url is neither missing nor blank
ValidEntries(urls_input) ==
    SelectSeq(urls_input.value,
              LAMBDA e : LET u == EntryUrl(urls_input.shape, e)
                         IN u # None /\ Strip(u) # "")

(* C12: in each of the four shapes an entry whose url (source) is missing  *)
(* or blank is dropped alone: the output has one record per valid entry,   *)
(* in input order (the record of the k-th valid entry carries its trimmed  *)
(* url, or its name in the mapping shape).                                 *)
C12_BadEntryDroppedAlone ==
    Parsed =>
        LET valid == ValidEntries(config)
        IN /\ Len(result) = Len(valid)
           /\ \A k \in 1..Len(valid) :
                 IF config.shape = "mapping"
                 THEN result[k].name = valid[k][1]
                 ELSE result[k].url = Strip(EntryUrl(config.shape, valid[k]))

(* C13: every record the normalizer returns is canonical: it has a url     *)
(* that is non-empty and trimmed, no key of it maps to None, and (for the  *)
(* mapping entries of a list) its ref is the entry's ref if set, else its  *)
(* version if set, else its branch if set.                                 *)
C13_CanonicalForm ==
    Parsed =>
        /\ \A k \in 1..Len(result) :
              /\ "url" \in DOMAIN result[k]
              /\ result[k].url # ""
              /\ Strip(result[k].url) = result[k].url
              /\ \A key \in DOMAIN result[k] : result[k][key] # None
        /\ config.shape = "dicts" =>
              LET valid == ValidEntries(config)
              IN /\ Len(result) = Len(valid)
                 /\ \A k \in 1..Len(valid) :
                       LET ref == Get(valid[k], "ref")
                           version == Get(valid[k], "version")
                           branch == Get(valid[k], "branch")
                       IN IF Truthy(ref) THEN result[k].ref = ref
                          ELSE IF Truthy(version) THEN result[k].ref = version
                          ELSE IF Truthy(branch) THEN result[k].ref = branch
                          ELSE TRUE

\* A list of mappings of which one has ref, version and branch set and one
\* has an explicit null ref: both are kept, with ref and version as the ref
C13_Witness ==
    /\ Parsed
    /\ config.shape = "dicts"
    /\ Len(result) = 2
    /\ result[1].url = "acme/vpc/aws" /\ result[1].ref = "v1"
    /\ result[2].url = "acme/eks/aws" /\ result[2].ref = "2.0.0"
    /\ "path" \notin DOMAIN result[2]

-----------------------------------------------------------------------------
(* The name deriver.                                                       *)

\* A call of _get_clean_module_name has ended.
Derived == pipeline = "get_clean_module_name" /\ pc = "done"

\* The reference has neither an explicit name nor a provider/resource pair.
NameFromUrl(ref) ==
    ~Truthy(ref.name) /\ ~(Truthy(ref.provider) /\ Truthy(ref.resource_type))

\* The url without its /tree/... suffix
WithoutTree(url) == IF Contains(url, "/tree/") THEN Split(url, "/tree/")[1] ELSE url

HasScheme(url) ==
    StartsWith(url, "http://") \/ StartsWith(url, "https://") \/ StartsWith(url, "git@")

(* C14: deriveName never raises on a canonical module reference and never  *)
(* returns the empty string when the url is non-empty.                     *)
C14_NeverEmptyName ==
    Derived =>
        /\ outcome = "returned"
        /\ config.url # "" => result # ""

(* C15: deriveName follows a strict priority: an explicit name gives that  *)
(* name lower-cased with hyphens replaced by underscores, whatever the     *)
(* provider, resource_type and url; otherwise a provider with a            *)
(* resource_type gives "<provider>_<resource_type>" lower-cased, whatever  *)
(* the url.                                                                *)
C15_NamePriority ==
    Derived =>
        IF Truthy(config.name)
        THEN result = Replace(Lower(config.name), "-", "_")
        ELSE (Truthy(config.provider) /\ Truthy(config.resource_type)) =>
                result = Lower(config.provider \o "_" \o config.resource_type)

\* A reference with a name, a provider pair and a registry url, named by its name
C15_Witness ==
    /\ Derived
    /\ config.name = "My-VPC"
    /\ config.provider = "AWS"
    /\ config.resource_type = "S3-Bucket"
    /\ config.url = "terraform-aws-modules/vpc/aws"
    /\ result = "my_vpc"

\* s without the suffix, where it ends with it
RemoveSuffix(s, suffix) ==
    IF Len(s) >= Len(suffix) /\ SubSeq(s, Len(s) - Len(suffix) + 1, Len(s)) = suffix
    THEN SubSeq(s, 1, Len(s) - Len(suffix))
    ELSE s

\* The name of a repository on a git host: its final path segment without a
\* trailing ".git"; terraform-<provider>-<resource...> gives
\* <provider>_<resource parts joined by _>, any other segment itself with
\* hyphens as underscores; lower-cased
RepositoryName(url) ==
    LET segment == Last(Split(RemoveSuffix(RStrip(WithoutTree(url), "/"), ".git"), "/"))
        parts == Split(segment, "-")
    IN IF StartsWith(segment, "terraform-") /\ Len(parts) >= 3
       THEN Lower(parts[2] \o "_" \o Join(SubSeq(parts, 3, Len(parts)), "_"))
       ELSE Lower(Replace(segment, "-", "_"))

(* C16: for a url on github.com or gitlab.com, with no explicit name and   *)
(* no provider/resource pair, deriveName works on the final path segment   *)
(* with only a trailing ".git" removed and no other trailing character.    *)
C16_GitHostName ==
    (/\ Derived
     /\ NameFromUrl(config)
     /\ HasScheme(config.url)
     /\ (Contains(config.url, "github.com") \/ Contains(config.url, "gitlab.com")))
    => result = RepositoryName(config.url)

-----------------------------------------------------------------------------
(* The argument synthesizer.                                               *)

\* A call of map_terraform_type_to_arg_type has returned.
Mapped == pipeline = "map_terraform_type_to_arg_type" /\ pc = "done"

Synthesized ==
    /\ pipeline \in {"initialize_tool", "create_arg_from_variable"}
    /\ pc = "done"
    /\ outcome = "returned"

(* C19: every argument description synthesized for a variable has at most  *)
(* 1024 characters, whatever the lengths of the variable's description,    *)
(* default, example payload and validation rules.                          *)
C19_DescriptionBounded ==
    Synthesized => Len(result.description) <= MAX_DESCRIPTION_LENGTH

\* The text writes an integer: digits, after a minus sign or not
IsIntegerText(text) ==
    IF StartsWith(text, "-") THEN IsDigits(SubSeq(text, 2, Len(text)))
    ELSE IsDigits(text)

(* C20: for a variable mapped to int that has a default, the pass of the   *)
(* loop does not raise and the synthesized default is a string that writes *)
(* an integer: the whole part of a numeric default (3.0 gives "3"), and    *)
(* "0" for a default that cannot be converted ("abc", a list, a dict).     *)
C20_IntDefault ==
    (/\ pipeline = "initialize_tool"
     /\ pc = "done"
     /\ config.type = "number"
     /\ config.has_default
     /\ config.default.kind # "none")
    => /\ outcome = "returned"
       /\ ~result.raised
       /\ IsIntegerText(result.default)
       /\ config.default.text = "3.0" => result.default = "3"
       /\ (config.default.kind \in {"list", "dict"} \/ config.default.text = "abc")
             => result.default = "0"

\* A pass of the variable loop of initialize_tool has ended
PassEnded ==
    /\ pipeline = "initialize_tool"
    /\ pc = "done"

\* The variable of the pass has no default: the key is absent or None
NoDefault == ~config.has_default \/ config.default.kind = "none"

(* C21: for a variable without a default, of any type, the pass of the     *)
(* loop returns an argument that carries no default and whose required     *)
(* flag is the variable's; the lack of a default never fails the variable. *)
C21_NoDefaultSucceeds ==
    (PassEnded /\ NoDefault)
    => /\ outcome = "returned"
       /\ ~result.raised
       /\ result.default = None
       /\ result.required = config.required

\* The base type of a Terraform type: list of list(string)
BaseType(tf_type) == Lower(Split(tf_type, "(")[1])

\* text ends with part
EndsWith(text, part) ==
    /\ Len(text) >= Len(part)
    /\ SubSeq(text, Len(text) - Len(part) + 1, Len(text)) = part

\* The example payload of a variable as the description is to carry it: the
\* default where there is one, else the literal of the kind of its type
ExamplePayload(var_config, literal) ==
    IF ~var_config.has_default \/ var_config.default.kind = "none"
    THEN {literal}
    ELSE IF PyTruthy(var_config.default) THEN {JsonDumps(var_config.default)}
    ELSE {literal, JsonDumps(var_config.default)}

(* C22: for a variable whose type is not string, number or bool, the       *)
(* description (where it is short enough not to be cut) ends with the      *)
(* example payload of its type: an array literal for list and set, a       *)
(* key-value object literal for map and object, the variable's default in  *)
(* place of the literal where it has one, and the bare "Provide as JSON    *)
(* string" only for the other types.                                       *)
C22_ExampleByType ==
    (/\ PassEnded
     /\ config.type \notin {"string", "number", "bool"}
     /\ Len(config.description) < 100)
    => /\ outcome = "returned"
       /\ BaseType(config.type) \in {"list", "set"}
            => \E example \in ExamplePayload(config, "[\"item1\", \"item2\"]") :
                  EndsWith(result.description,
                           "\nProvide as JSON string, example: " \o example)
       /\ BaseType(config.type) \in {"map", "object"}
            => \E example \in ExamplePayload(config,
                                "{\"key1\": \"value1\", \"key2\": \"value2\"}") :
                  EndsWith(result.description,
                           "\nProvide as JSON string, example: " \o example)
       /\ BaseType(config.type) \notin {"list", "set", "map", "object"}
            => EndsWith(result.description, "\nProvide as JSON string")

\* A call of _initialize_provider_tools for a supported provider has ended
ProviderToolsMade ==
    /\ pipeline = "initialize_provider_tools"
    /\ pc = "done"
    /\ config.provider \in SupportedProviders

(* C23: for a supported provider _initialize_provider_tools never raises   *)
(* and returns the import descriptor and then the scan descriptor, each    *)
(* one exactly when its own construction succeeded: a failure of one of    *)
(* the two leaves the other in the result.                                 *)
C23_ToolsBuiltIndependently ==
    ProviderToolsMade
    => /\ outcome = "returned"
       /\ [k \in 1..Len(result) |-> result[k].name]
            = (IF config.import_ok
               THEN <<"terraform_import_" \o config.provider>> ELSE <<>>)
              \o (IF config.scan_ok
                  THEN <<"terraform_scan_" \o config.provider>> ELSE <<>>)

\* The elements of a sequence
Range(seq) == {seq[k] : k \in 1..Len(seq)}

(* C29: the env of every provider descriptor holds each credential         *)
(* variable of its provider exactly once: the same names as the supported  *)
(* table gives for the provider, and no name twice.                        *)
C29_EnvIsASet ==
    ProviderToolsMade
    => \A k \in 1..Len(result) :
          /\ Range(result[k].env) = Range(SUPPORTED_PROVIDERS[config.provider].env_vars)
          /\ Cardinality(Range(result[k].env)) = Len(result[k].env)

-----------------------------------------------------------------------------
(* Claims about the provider stage, the outcome of a run and the sink.     *)

\* The provider descriptors among seq
ProviderDescriptors(seq) ==
    SelectSeq(seq, LAMBDA d : d.action \in {"import", "scan"})

\* The reverse engineering stage of a run of initialize_tools has run: the
\* run is past it, or the stage raised
ReverseStageRan ==
    /\ pipeline = "init"
    /\ terraform_config(config).enable_reverse_terraform
    /\ \/ pc = "final"
       \/ pc = "done" /\ outcome = "returned"
       \/ pc = "done" /\ message \in {NoSuchMethodMessage,
                                       "No tools were created from configuration"}

(* C24: where the requested providers include one outside the supported    *)
(* table, the provider stage does not raise, and every supported provider  *)
(* requested with it contributes its import and its scan descriptor.       *)
C24_UnsupportedProviderSkipped ==
    (ReverseStageRan /\ "not-a-provider" \in Range(config.reverse_terraform_providers))
    => /\ message # NoSuchMethodMessage
       /\ \A p \in Range(config.reverse_terraform_providers) \cap SupportedProviders :
             {"terraform_import_" \o p, "terraform_scan_" \o p}
                \subseteq {result[k].name : k \in 1..Len(result)}

\* What the reverse engineering stage of initialize_tools adds to the tools
\* of a run over cfg, where it does not raise
ReverseStage(cfg) ==
    IF terraform_config(cfg).enable_reverse_terraform
    THEN initialize_reverse_terraform_tools(cfg)
    ELSE <<>>

\* The configuration with the same values in the other shape
OtherShape(cfg) ==
    [cfg EXCEPT !.shape = IF @ = "nested" THEN "flat" ELSE "nested"]

C26_TwoOutcomes ==
    (pipeline = "init" /\ pc = "done")
    => \/ outcome = "returned" /\ Len(result) > 0
       \/ outcome = "raised ConfigurationError" /\ message # None

\* A run over modules and providers that returned descriptors although it
\* recorded a failure.
C26_Witness ==
    /\ pipeline = "init"
    /\ pc = "done"
    /\ outcome = "returned"
    /\ Len(errors) > 0
    /\ config.enable_reverse_terraform

(* C27: in a batch run the discovery port is called exactly once for every *)
(* module the loop has left behind, and not at all for a module the loop   *)
(* has not reached: modules are handled one after another in input order.  *)
C27_OneDiscoveryPerModule ==
    pipeline = "init"
    => \A m \in 1..Len(modules) :
          /\ (Completed(m) /\ modules[m].config.url # None) => port[m].calls = 1
          /\ m > cursor => port[m].calls = 0

(* C28: once the loop of _initialize_module_tools is over, the descriptors *)
(* it registered are the descriptors of its list `tools`, in the same      *)
(* order and each one once.                                                *)
C28_RegistersWhatItReturns ==
    (pipeline = "init" /\ LoopOver) => registry = tools

(* C30: whenever a run of initialize_tools raises ConfigurationError, the  *)
(* tool sink holds no descriptor of the run.                               *)
C30_FailedRunLeavesSinkEmpty ==
    (pipeline = "init" /\ pc = "done" /\ outcome = "raised ConfigurationError")
    => registry = <<>>

====
